---- MODULE Spec2Model ----
(***************************************************************************)
(* Order ledger, payment return-trip verification and device activation    *)
(* of the code shop server (src/unnamed/part_000, src/src/models/Order.js).*)
(*                                                                         *)
(* The persistent store is the only shared state.  A request handler that  *)
(* awaits more than one store operation occupies a slot of `reqs` between  *)
(* its store operations, so that other requests interleave with it; a      *)
(* handler with a single store operation is one atomic action.  The        *)
(* response of a handler is an operator of the state it read and of its    *)
(* inputs (the ...Reply definitions).  `epoch` records for each order how  *)
(* its current activation period began and which Activate calls were       *)
(* answered 200 in it.                                                     *)
(***************************************************************************)
EXTENDS Integers, Sequences, FiniteSets, TLC

VARIABLES now, codes, orders, reqs, epoch

vars == <<now, codes, orders, reqs, epoch>>

\* ---- bounds ----
MaxTime == 2        \* the clock runs over 1..MaxTime
MaxOrders == 1      \* orders created where activations are explored
LedgerSize == 2     \* order documents the store can hold
NumSlots == 2       \* multi-step requests in flight at once

\* ---- values ----
Null == "null"                       \* JS null / undefined
Times == 1..MaxTime
OrderIds == 1..LedgerSize
Slots == 1..NumSlots
CodeIds == {"c1"}
DriveLinks == {"L1", "L2"}
Prices == {100}
DeviceInputs == {Null, "", "D1", "D2"}   \* body.deviceId: absent, empty, two devices
FwdInputs == {Null, "fwd"}               \* x-forwarded-for header: absent or present
RemoteAddress == "sock"                  \* req.socket.remoteAddress
StatusInputs == {Null, "PAID", "CANCELLED"}
SecretInputs == {Null, "wrong", "secret"}
ADMIN_ACTIVATE_SECRET == "secret"
OrderCodeInputs == 0..MaxTime            \* body.orderCode; 0 stands for a missing one

\* ---- documents ----
\* ActivationSchema (isActivated defaults to false, the rest unset)
DefaultActivation ==
    [present |-> TRUE, isActivated |-> FALSE, activatedAt |-> 0,
     deviceId |-> Null, ip |-> Null]

\* the activation path holding null
NullActivation ==
    [present |-> FALSE, isActivated |-> FALSE, activatedAt |-> 0,
     deviceId |-> Null, ip |-> Null]

\* OrderSchema; exists = FALSE is a free _id
NoOrder ==
    [exists |-> FALSE, code |-> "c1", amount |-> 0, orderCode |-> 0,
     status |-> "PENDING", paidAt |-> 0, paymentLinkId |-> Null,
     checkoutUrl |-> Null, activation |-> DefaultActivation]

\* SourceCodeSchema
NoCode == [exists |-> FALSE, driveLink |-> Null, priceVND |-> 0]

IdleReq ==
    [pc |-> "idle", id |-> 0, code |-> "c1", amount |-> 0, orderCode |-> 0,
     setStatus |-> FALSE, paidAt |-> 0, activation |-> DefaultActivation,
     driveLink |-> Null]

\* a response: status code, error text, and the fields of the success bodies
Reply(code, error) ==
    [code |-> code, error |-> error, deviceId |-> Null, activatedAt |-> 0,
     driveLink |-> Null, status |-> Null]

\* an activation period: how it began ("create", "ui" or "api" reset), whether
\* the reset that began it found the order activated, and the deviceIds of the
\* Activate calls answered 200 since
NewEpoch(via, wasActivated) ==
    [via |-> via, wasActivated |-> wasActivated, grants |-> <<>>]

Init ==
    /\ now = 1
    /\ codes = [c \in CodeIds |-> NoCode]
    /\ orders = [o \in OrderIds |-> NoOrder]
    /\ reqs = [s \in Slots |-> IdleReq]
    /\ epoch = [o \in OrderIds |-> NewEpoch("create", FALSE)]

\* ---- helpers ----
\* a request takes the lowest idle slot
FreeSlot(s) ==
    /\ reqs[s].pc = "idle"
    /\ \A t \in Slots : t < s => reqs[t].pc # "idle"

\* Order.findOne({ orderCode }): the _id of the matching order, 0 when none
FindOne(orderCode) ==
    IF \E o \in OrderIds : orders[o].exists /\ orders[o].orderCode = orderCode
    THEN CHOOSE o \in OrderIds : orders[o].exists /\ orders[o].orderCode = orderCode
    ELSE 0

\* .populate('code'): the driveLink of the referenced item, null when deleted
PopulatedDriveLink(o) ==
    IF codes[orders[o].code].exists THEN codes[orders[o].code].driveLink ELSE Null

\* order.activation?.isActivated
IsActivated(a) == a.present /\ a.isActivated

\* HMAC-SHA256 over `${orderCode}:${status}`, hex; distinct messages give
\* distinct codes
Sign(orderCode, status) == <<"hmac", orderCode, status>>

SigInputs ==
    {<<"hmac", 0, Null>>, <<"garbage", 0, Null>>}
        \cup {Sign(c, st) : c \in Times, st \in {"PAID", "CANCELLED"}}

\* ---- clock ----
Tick ==
    /\ now < MaxTime
    /\ now' = now + 1
    /\ UNCHANGED <<codes, orders, reqs, epoch>>

\* ---- catalog (admin) ----
\* POST /admin/codes
AdminCreateCode(c, link, price) ==
    /\ ~codes[c].exists
    /\ codes' = [codes EXCEPT ![c] =
                    [exists |-> TRUE, driveLink |-> link, priceVND |-> price]]
    /\ UNCHANGED <<now, orders, reqs, epoch>>

\* PUT /admin/codes/:id
AdminUpdateCode(c, link, price) ==
    /\ codes[c].exists
    /\ codes' = [codes EXCEPT ![c].driveLink = link, ![c].priceVND = price]
    /\ UNCHANGED <<now, orders, reqs, epoch>>

\* DELETE /admin/codes/:id
AdminDeleteCode(c) ==
    /\ codes' = [codes EXCEPT ![c] = NoCode]
    /\ UNCHANGED <<now, orders, reqs, epoch>>

\* ---- POST /order ----
\* SourceCode.findById, then orderCode = Date.now() and the document to insert;
\* cap bounds the orders created
OrderFindUpTo(s, c, cap) ==
    /\ FreeSlot(s)
    /\ Cardinality({o \in OrderIds : orders[o].exists})
         + Cardinality({t \in Slots : reqs[t].pc = "order_create"}) < cap
    /\ reqs' = IF ~codes[c].exists
               THEN reqs
               ELSE [reqs EXCEPT ![s] =
                       [IdleReq EXCEPT !.pc = "order_create", !.code = c,
                                       !.amount = codes[c].priceVND,
                                       !.orderCode = now]]
    /\ UNCHANGED <<now, codes, orders, epoch>>

OrderFind(s, c) == OrderFindUpTo(s, c, MaxOrders)

OrderFindReply(c) ==
    IF ~codes[c].exists THEN Reply(404, "Code not found") ELSE Reply(0, Null)

\* the document Order.create inserts
NewOrder(req) ==
    [NoOrder EXCEPT !.exists = TRUE, !.code = req.code, !.amount = req.amount,
                    !.orderCode = req.orderCode]

\* (mutant) Order.create with no unique index on orderCode
OrderCreateNoIndex(s) ==
    /\ reqs[s].pc = "order_create"
    /\ LET o == CHOOSE i \in OrderIds :
                    /\ ~orders[i].exists
                    /\ \A j \in OrderIds : j < i => orders[j].exists
       IN /\ orders' = [orders EXCEPT ![o] = NewOrder(reqs[s])]
          /\ epoch' = [epoch EXCEPT ![o] = NewEpoch("create", FALSE)]
          /\ reqs' = [reqs EXCEPT ![s].pc = "order_pay", ![s].id = o]
    /\ UNCHANGED <<now, codes>>

\* Order.create: the insert fails on the unique index of orderCode
OrderCreate(s) ==
    /\ reqs[s].pc = "order_create"
    /\ IF FindOne(reqs[s].orderCode) # 0
       THEN /\ reqs' = [reqs EXCEPT ![s] = IdleReq]
            /\ UNCHANGED <<orders, epoch>>
       ELSE LET o == CHOOSE i \in OrderIds :
                        /\ ~orders[i].exists
                        /\ \A j \in OrderIds : j < i => orders[j].exists
            IN /\ orders' = [orders EXCEPT ![o] = NewOrder(reqs[s])]
               /\ epoch' = [epoch EXCEPT ![o] = NewEpoch("create", FALSE)]
               /\ reqs' = [reqs EXCEPT ![s].pc = "order_pay", ![s].id = o]
    /\ UNCHANGED <<now, codes>>

\* the response when the insert fails: the 500 of the catch block
OrderCreateReply(req) ==
    IF FindOne(req.orderCode) # 0
    THEN Reply(500, "cannot create order / payment link")
    ELSE Reply(0, Null)

\* (mutant) save writing the whole document as it was created
OrderSaveLinkStale(stored, link) ==
    IF link = Null THEN stored
    ELSE [stored EXCEPT !.status = "PENDING", !.paidAt = 0,
                        !.paymentLinkId = "pl", !.checkoutUrl = link]

\* what order.save() writes after the provider call: the modified paths only
\* (paymentLinkId, checkoutUrl), leaving every other stored field as it is
OrderSaveLink(stored, link) ==
    IF link = Null THEN stored
    ELSE [stored EXCEPT !.paymentLinkId = "pl", !.checkoutUrl = link]

\* the returnUrl handed to the provider: the route of the new order with the
\* query orderCode, status = 'PAID' and sig, the signature over both
ReturnUrl(id, orderCode) ==
    [id |-> id, orderCode |-> orderCode, status |-> "PAID",
     sig |-> Sign(orderCode, "PAID")]

\* payos.paymentRequests.create: a checkout URL, none, or an exception
ProviderOutcomes == {"url", Null, "throw"}

\* the provider call, order.save, redirect
OrderPay(s, outcome) ==
    /\ reqs[s].pc = "order_pay"
    /\ reqs' = [reqs EXCEPT ![s] = IdleReq]
    /\ orders' = IF outcome = "throw"
                 THEN orders
                 ELSE [orders EXCEPT ![reqs[s].id] = OrderSaveLink(@, outcome)]
    /\ UNCHANGED <<now, codes, epoch>>

\* the Location of res.redirect(order.checkoutUrl); an undefined checkoutUrl
\* is sent as the text "undefined"
RedirectLocation(outcome) == IF outcome = Null THEN "undefined" ELSE outcome

\* the response of POST /order after the provider call: the 500 of the catch
\* block when the call threw, else the redirect
OrderPayReply(req, outcome) ==
    IF outcome = "throw" THEN Reply(500, "cannot create order / payment link")
    ELSE Reply(302, Null)

\* ---- POST /admin/orders/:id/mark-paid ----
\* findByIdAndUpdate(id, { status: 'PAID', paidAt: new Date() })
MarkPaidUpdate(order, t) == [order EXCEPT !.status = "PAID", !.paidAt = t]

MarkPaid(o) ==
    /\ orders[o].exists
    /\ orders' = [orders EXCEPT ![o] = MarkPaidUpdate(@, now)]
    /\ UNCHANGED <<now, codes, reqs, epoch>>

\* ---- GET /order/:id/success ----
\* (mutant) the status check left out
VerifiedAnyStatus(order, status, sig) == sig = Sign(order.orderCode, status)

\* (mutant) expected computed over the amount in place of the orderCode
VerifiedOverAmount(order, status, sig) ==
    status = "PAID" /\ sig = Sign(order.amount, status)

\* status === 'PAID' && sig === expected, expected computed over the stored
\* orderCode and the status of the query
Verified(order, status, sig) ==
    status = "PAID" /\ sig = Sign(order.orderCode, status)

\* (mutant) expected computed over the orderCode of the query
SuccessFindTrustsQuery(s, o, status, qOrderCode, sig) ==
    /\ FreeSlot(s)
    /\ reqs' = IF orders[o].exists
                  /\ Verified([orders[o] EXCEPT !.orderCode = qOrderCode],
                              status, sig)
               THEN [reqs EXCEPT ![s] =
                       [IdleReq EXCEPT !.pc = "success_save", !.id = o,
                                       !.setStatus = (orders[o].status # "PAID"),
                                       !.paidAt = now]]
               ELSE reqs
    /\ UNCHANGED <<now, codes, orders, epoch>>

\* Order.findById; on a verified return the document is changed in memory and
\* its save is pending, otherwise the page is rendered at once
SuccessFind(s, o, status, qOrderCode, sig) ==
    /\ FreeSlot(s)
    /\ reqs' = IF orders[o].exists /\ Verified(orders[o], status, sig)
               THEN [reqs EXCEPT ![s] =
                       [IdleReq EXCEPT !.pc = "success_save", !.id = o,
                                       !.setStatus = (orders[o].status # "PAID"),
                                       !.paidAt = now]]
               ELSE reqs
    /\ UNCHANGED <<now, codes, orders, epoch>>

\* the response when no save is pending: 404, or the page with the loaded status
SuccessFindReply(o, status, sig) ==
    IF ~orders[o].exists THEN Reply(404, "Not found")
    ELSE IF Verified(orders[o], status, sig) THEN Reply(0, Null)
    ELSE [Reply(200, Null) EXCEPT !.status = orders[o].status]

\* (mutant) the save also writing the activation of a fresh document
SuccessSaveDocWhole(stored, req) ==
    [stored EXCEPT !.status = IF req.setStatus THEN "PAID" ELSE @,
                   !.paidAt = req.paidAt,
                   !.activation = DefaultActivation]

\* what order.save() writes on the return trip: paidAt, and status when the
\* loaded status was not PAID already
SuccessSaveDoc(stored, req) ==
    [stored EXCEPT !.status = IF req.setStatus THEN "PAID" ELSE @,
                   !.paidAt = req.paidAt]

\* order.save(), then the page rendered from the document in memory
SuccessSave(s) ==
    /\ reqs[s].pc = "success_save"
    /\ orders' = [orders EXCEPT ![reqs[s].id] = SuccessSaveDoc(@, reqs[s])]
    /\ reqs' = [reqs EXCEPT ![s] = IdleReq]
    /\ UNCHANGED <<now, codes, epoch>>

\* order.save() rejects: the catch block swallows the error and the page is
\* rendered from the document in memory, nothing being written
SuccessSaveFails(s) ==
    /\ reqs[s].pc = "success_save"
    /\ reqs' = [reqs EXCEPT ![s] = IdleReq]
    /\ UNCHANGED <<now, codes, orders, epoch>>

\* the page after the save or its failure: the document in memory has status
\* 'PAID' assigned either way
SuccessSaveReply(req) == [Reply(200, Null) EXCEPT !.status = "PAID"]

\* ---- resets ----
\* (mutant) the device cleared, the flag left set
UiResetKeepsFlag ==
    [present |-> TRUE, isActivated |-> TRUE, activatedAt |-> 0,
     deviceId |-> Null, ip |-> Null]

\* POST /admin/activations/:id/reset: the activation written by the UI route
UiResetActivation ==
    [present |-> TRUE, isActivated |-> FALSE, activatedAt |-> 0,
     deviceId |-> Null, ip |-> Null]

\* (mutant) the flag cleared, the rest of the activation left as it is
ResetUiClearsFlagOnly(o) ==
    /\ orders[o].exists
    /\ orders' = [orders EXCEPT ![o].activation =
                     [@ EXCEPT !.present = TRUE, !.isActivated = FALSE]]
    /\ epoch' = [epoch EXCEPT ![o] =
                    NewEpoch("ui", IsActivated(orders[o].activation))]
    /\ UNCHANGED <<now, codes, reqs>>

ResetUi(o) ==
    /\ orders[o].exists
    /\ orders' = [orders EXCEPT ![o].activation = UiResetActivation]
    /\ epoch' = [epoch EXCEPT ![o] =
                    NewEpoch("ui", IsActivated(orders[o].activation))]
    /\ UNCHANGED <<now, codes, reqs>>

\* (mutant) the device cleared, the flag left set
ApiResetKeepsFlag ==
    [present |-> TRUE, isActivated |-> TRUE, activatedAt |-> 0,
     deviceId |-> Null, ip |-> Null]

\* POST /api/admin/reset-activation: $set: { activation: null }
ApiResetActivation == NullActivation

\* (mutant) the orderCode check placed before the secret check
ResetApiStatusBodyFirst(secret, orderCode) ==
    IF orderCode = 0 THEN 400
    ELSE IF secret # ADMIN_ACTIVATE_SECRET THEN 401
    ELSE 200

\* the status code of the API reset: the secret is checked first
ResetApiStatus(secret, orderCode) ==
    IF secret # ADMIN_ACTIVATE_SECRET THEN 401
    ELSE IF orderCode = 0 THEN 400
    ELSE 200

ResetApi(secret, orderCode) ==
    LET o == FindOne(orderCode) IN
    IF ResetApiStatus(secret, orderCode) = 200 /\ o # 0
    THEN /\ orders' = [orders EXCEPT ![o].activation = ApiResetActivation]
         /\ epoch' = [epoch EXCEPT ![o] =
                         NewEpoch("api", IsActivated(orders[o].activation))]
         /\ UNCHANGED <<now, codes, reqs>>
    ELSE UNCHANGED vars

\* ---- POST /api/activate ----
\* (mutant) the already-activated check left out
ActivateRefusalNoConflict(orderCode) ==
    LET o == FindOne(orderCode) IN
    IF orderCode = 0 THEN 400
    ELSE IF o = 0 THEN 404
    ELSE IF orders[o].status # "PAID" THEN 400
    ELSE 0

\* (mutant) the PAID check left out
ActivateRefusalNoPaid(orderCode) ==
    LET o == FindOne(orderCode) IN
    IF orderCode = 0 THEN 400
    ELSE IF o = 0 THEN 404
    ELSE IF IsActivated(orders[o].activation) THEN 409
    ELSE 0

\* the checks before the activation is recorded: the status code of the
\* refusal, 0 when the request passes them
ActivateRefusal(orderCode) ==
    LET o == FindOne(orderCode) IN
    IF orderCode = 0 THEN 400
    ELSE IF o = 0 THEN 404
    ELSE IF orders[o].status # "PAID" THEN 400
    ELSE IF IsActivated(orders[o].activation) THEN 409
    ELSE 0

\* the response of a refused request; the 409 carries the stored activation
ActivateReply(orderCode) ==
    LET o == FindOne(orderCode)
        code == ActivateRefusal(orderCode)
    IN IF code = 409
       THEN [Reply(409, "Order already activated") EXCEPT
                !.activatedAt = orders[o].activation.activatedAt,
                !.deviceId = orders[o].activation.deviceId]
       ELSE IF code = 404 THEN Reply(404, "Order not found")
       ELSE IF orderCode = 0 THEN Reply(400, "orderCode is required")
       ELSE IF code = 400 THEN Reply(400, "Order is not PAID")
       ELSE Reply(0, Null)

\* (mutant) the connection address taken whatever the header
ClientIpOfSocket(fwd) == RemoteAddress

\* x-forwarded-for when present, else the connection address (the header
\* reaches the handler as one string, so the Array.isArray branch is not taken)
ClientIp(fwd) == IF fwd # Null THEN fwd ELSE RemoteAddress

\* deviceId || null
DeviceOrNull(deviceId) == IF deviceId = "" THEN Null ELSE deviceId

\* the activation assigned to the document in memory
NewActivation(deviceId, fwd, t) ==
    [present |-> TRUE, isActivated |-> TRUE, activatedAt |-> t,
     deviceId |-> DeviceOrNull(deviceId), ip |-> ClientIp(fwd)]

\* Order.findOne and the checks; a request that passes them has its save pending
ActivateFind(s, orderCode, deviceId, fwd) ==
    /\ FreeSlot(s)
    /\ reqs' = IF ActivateRefusal(orderCode) # 0
               THEN reqs
               ELSE [reqs EXCEPT ![s] =
                       [IdleReq EXCEPT
                           !.pc = "activate_save", !.id = FindOne(orderCode),
                           !.activation = NewActivation(deviceId, fwd, now),
                           !.driveLink = PopulatedDriveLink(FindOne(orderCode))]]
    /\ UNCHANGED <<now, codes, orders, epoch>>

\* (mutant) the save also writing the paidAt of a fresh document
ActivateSaveDocWhole(stored, req) ==
    [stored EXCEPT !.activation = req.activation, !.paidAt = req.paidAt]

\* what order.save() writes: the activation path
ActivateSaveDoc(stored, req) == [stored EXCEPT !.activation = req.activation]

\* order.code?.driveLink || null: an empty link is answered as null
LinkOrNull(link) == IF link = "" THEN Null ELSE link

\* the 200 response, built from the document in memory
ActivateOkReply(req) ==
    [Reply(200, Null) EXCEPT !.deviceId = req.activation.deviceId,
                             !.activatedAt = req.activation.activatedAt,
                             !.driveLink = LinkOrNull(req.driveLink)]

\* order.save(), then the 200 response
ActivateSave(s) ==
    /\ reqs[s].pc = "activate_save"
    /\ orders' = [orders EXCEPT ![reqs[s].id] = ActivateSaveDoc(@, reqs[s])]
    /\ epoch' = [epoch EXCEPT ![reqs[s].id].grants =
                    Append(@, ActivateOkReply(reqs[s]).deviceId)]
    /\ reqs' = [reqs EXCEPT ![s] = IdleReq]
    /\ UNCHANGED <<now, codes>>

\* ---- POST /api/validate ----
\* (mutant) the device comparison left out
ValidateStatusNoDevice(orderCode, deviceId) ==
    LET o == FindOne(orderCode) IN
    IF orderCode = 0 \/ deviceId \in {Null, ""} THEN 400
    ELSE IF o = 0 THEN 404
    ELSE IF orders[o].status # "PAID" THEN 400
    ELSE IF ~IsActivated(orders[o].activation) THEN 403
    ELSE 200

\* (mutant) the device comparison made also when no device is stored
ValidateStatusStrict(orderCode, deviceId) ==
    LET o == FindOne(orderCode) IN
    IF orderCode = 0 \/ deviceId \in {Null, ""} THEN 400
    ELSE IF o = 0 THEN 404
    ELSE IF orders[o].status # "PAID" THEN 400
    ELSE IF ~IsActivated(orders[o].activation) THEN 403
    ELSE IF orders[o].activation.deviceId # deviceId THEN 409
    ELSE 200

\* the status code of the response
ValidateStatus(orderCode, deviceId) ==
    LET o == FindOne(orderCode) IN
    IF orderCode = 0 \/ deviceId \in {Null, ""} THEN 400
    ELSE IF o = 0 THEN 404
    ELSE IF orders[o].status # "PAID" THEN 400
    ELSE IF ~IsActivated(orders[o].activation) THEN 403
    ELSE IF orders[o].activation.deviceId # Null
            /\ orders[o].activation.deviceId # deviceId THEN 409
    ELSE 200

\* (mutant) a 200 for an activation without a device binds the caller's device
ValidateBinds(orderCode, deviceId) ==
    LET o == FindOne(orderCode) IN
    /\ ValidateStatus(orderCode, deviceId) \in {200, 400, 403, 404, 409}
    /\ orders' = IF ValidateStatus(orderCode, deviceId) = 200
                 THEN [orders EXCEPT ![o].activation.deviceId = deviceId]
                 ELSE orders
    /\ UNCHANGED <<now, codes, reqs, epoch>>

\* the handler reads and answers; it writes nothing
Validate(orderCode, deviceId) ==
    /\ ValidateStatus(orderCode, deviceId) \in {200, 400, 403, 404, 409}
    /\ UNCHANGED vars

\* ---- store operations that fail ----
\* A rejected store operation inside a try block is answered by its catch
\* block.  The lookup of the return trip and the update of the API reset are
\* awaited outside any try block: the rejection leaves the handler, and the
\* request gets the 500 of the framework where the framework catches rejected
\* handlers, and no response where it does not.
RejectionOutcomes == {"500", "unanswered"}

\* the 500 of a catch block or of the framework
ServerErrorReply == Reply(500, "server_error")

\* how a rejection outside a try block leaves the request of slot s
Rejected(s, outcome) ==
    /\ FreeSlot(s)
    /\ reqs' = IF outcome = "unanswered"
               THEN [reqs EXCEPT ![s] = [IdleReq EXCEPT !.pc = "unanswered"]]
               ELSE reqs
    /\ UNCHANGED <<now, codes, orders, epoch>>

\* GET /order/:id/success: Order.findById rejects
SuccessFindFails(s, outcome) == Rejected(s, outcome)

\* POST /api/admin/reset-activation: Order.updateOne rejects, after both
\* checks passed
ResetApiFails(s, secret, orderCode, outcome) ==
    /\ ResetApiStatus(secret, orderCode) = 200
    /\ Rejected(s, outcome)

\* POST /api/activate: Order.findOne rejects, the catch block answers 500
ActivateFindFails(orderCode) ==
    /\ orderCode # 0
    /\ ServerErrorReply.code = 500
    /\ UNCHANGED vars

\* POST /api/activate: order.save() rejects, the catch block answers 500
ActivateSaveFails(s) ==
    /\ reqs[s].pc = "activate_save"
    /\ ServerErrorReply.code = 500
    /\ reqs' = [reqs EXCEPT ![s] = IdleReq]
    /\ UNCHANGED <<now, codes, orders, epoch>>

\* POST /api/validate: Order.findOne rejects, the catch block answers 500
ValidateFails(orderCode, deviceId) ==
    /\ orderCode # 0
    /\ deviceId \notin {Null, ""}
    /\ ServerErrorReply.code = 500
    /\ UNCHANGED vars

\* ---- specification ----
\* The catalog holds one item with one link and every Activate request comes
\* without an x-forwarded-for header.
Next ==
    \/ Tick
    \/ \E c \in CodeIds, p \in Prices : AdminCreateCode(c, "L1", p)
    \/ \E c \in CodeIds : AdminDeleteCode(c)
    \/ \E s \in Slots, c \in CodeIds : OrderFind(s, c)
    \/ \E s \in Slots : OrderCreate(s)
    \/ \E s \in Slots, r \in ProviderOutcomes : OrderPay(s, r)
    \/ \E o \in OrderIds : MarkPaid(o)
    \/ \E s \in Slots, o \in OrderIds, st \in StatusInputs,
          q \in OrderCodeInputs, sig \in SigInputs : SuccessFind(s, o, st, q, sig)
    \/ \E s \in Slots : SuccessSave(s)
    \/ \E o \in OrderIds : ResetUi(o)
    \/ \E k \in SecretInputs, c \in OrderCodeInputs : ResetApi(k, c)
    \/ \E s \in Slots, c \in OrderCodeInputs, d \in DeviceInputs :
          ActivateFind(s, c, d, Null)
    \/ \E s \in Slots : ActivateSave(s)
    \/ \E c \in OrderCodeInputs, d \in DeviceInputs : Validate(c, d)

Spec == Init /\ [][Next]_vars

\* ---- specification with store failures ----
\* As Spec, and the save of the return trip may be rejected by the store.
NextStoreFails ==
    \/ Next
    \/ \E s \in Slots : SuccessSaveFails(s)

SpecStoreFails == Init /\ [][NextStoreFails]_vars

\* ---- specification with the x-forwarded-for header ----
\* Activate requests come with and without the header; orders are paid by the
\* admin and reset from the admin UI.
NextForwarded ==
    \/ Tick
    \/ \E c \in CodeIds, p \in Prices : AdminCreateCode(c, "L1", p)
    \/ \E s \in Slots, c \in CodeIds : OrderFind(s, c)
    \/ \E s \in Slots : OrderCreate(s)
    \/ \E s \in Slots, r \in ProviderOutcomes : OrderPay(s, r)
    \/ \E o \in OrderIds : MarkPaid(o)
    \/ \E o \in OrderIds : ResetUi(o)
    \/ \E s \in Slots, c \in OrderCodeInputs, d \in DeviceInputs,
          f \in FwdInputs : ActivateFind(s, c, d, f)
    \/ \E s \in Slots : ActivateSave(s)

SpecForwarded == Init /\ [][NextForwarded]_vars

\* ---- specification with catalog edits ----
\* The admin creates, edits and deletes the catalog item at any time; an edit
\* may store an empty driveLink (findByIdAndUpdate runs no validators).  The
\* clock stands still and orders are paid by the admin.
NextCatalog ==
    \/ \E c \in CodeIds, l \in DriveLinks, p \in Prices : AdminCreateCode(c, l, p)
    \/ \E c \in CodeIds, l \in DriveLinks \cup {""}, p \in Prices :
          AdminUpdateCode(c, l, p)
    \/ \E c \in CodeIds : AdminDeleteCode(c)
    \/ \E s \in Slots, c \in CodeIds : OrderFind(s, c)
    \/ \E s \in Slots : OrderCreate(s)
    \/ \E s \in Slots, r \in ProviderOutcomes : OrderPay(s, r)
    \/ \E o \in OrderIds : MarkPaid(o)
    \/ \E o \in OrderIds : ResetUi(o)
    \/ \E s \in Slots, c \in OrderCodeInputs, d \in DeviceInputs :
          ActivateFind(s, c, d, Null)
    \/ \E s \in Slots : ActivateSave(s)

SpecCatalog == Init /\ [][NextCatalog]_vars

\* ---- specification of the ledger ----
\* Orders are created up to the size of the ledger, requests of POST /order
\* overlap, and orders are paid by the admin or over the return trip.
NextLedger ==
    \/ Tick
    \/ \E c \in CodeIds, p \in Prices : AdminCreateCode(c, "L1", p)
    \/ \E s \in Slots, c \in CodeIds : OrderFindUpTo(s, c, LedgerSize)
    \/ \E s \in Slots : OrderCreate(s)
    \/ \E s \in Slots, r \in ProviderOutcomes : OrderPay(s, r)
    \/ \E o \in OrderIds : MarkPaid(o)
    \/ \E s \in Slots, o \in OrderIds, st \in StatusInputs,
          q \in OrderCodeInputs, sig \in SigInputs : SuccessFind(s, o, st, q, sig)
    \/ \E s \in Slots : SuccessSave(s)

SpecLedger == Init /\ [][NextLedger]_vars

\* ---- specification of responses ----
\* The clock stands still and any store operation of Activate, Validate, the
\* API reset and the return trip may be rejected.  A store operation that was
\* started completes or fails: every pending store operation of a slot is
\* weakly fair.
NextAnswered ==
    \/ \E c \in CodeIds, p \in Prices : AdminCreateCode(c, "L1", p)
    \/ \E s \in Slots, c \in CodeIds : OrderFind(s, c)
    \/ \E s \in Slots : OrderCreate(s)
    \/ \E s \in Slots, r \in ProviderOutcomes : OrderPay(s, r)
    \/ \E o \in OrderIds : MarkPaid(o)
    \/ \E s \in Slots, o \in OrderIds, st \in StatusInputs,
          q \in OrderCodeInputs, sig \in SigInputs : SuccessFind(s, o, st, q, sig)
    \/ \E s \in Slots, r \in RejectionOutcomes : SuccessFindFails(s, r)
    \/ \E s \in Slots : SuccessSave(s)
    \/ \E s \in Slots : SuccessSaveFails(s)
    \/ \E k \in SecretInputs, c \in OrderCodeInputs : ResetApi(k, c)
    \/ \E s \in Slots, k \in SecretInputs, c \in OrderCodeInputs,
          r \in RejectionOutcomes : ResetApiFails(s, k, c, r)
    \/ \E s \in Slots, c \in OrderCodeInputs, d \in DeviceInputs :
          ActivateFind(s, c, d, Null)
    \/ \E c \in OrderCodeInputs : ActivateFindFails(c)
    \/ \E s \in Slots : ActivateSave(s)
    \/ \E s \in Slots : ActivateSaveFails(s)
    \/ \E c \in OrderCodeInputs, d \in DeviceInputs : Validate(c, d)
    \/ \E c \in OrderCodeInputs, d \in DeviceInputs : ValidateFails(c, d)

SpecAnswered ==
    /\ Init
    /\ [][NextAnswered]_vars
    /\ \A s \in Slots :
          /\ WF_vars(OrderCreate(s))
          /\ WF_vars(\E r \in ProviderOutcomes : OrderPay(s, r))
          /\ WF_vars(SuccessSave(s) \/ SuccessSaveFails(s))
          /\ WF_vars(ActivateSave(s) \/ ActivateSaveFails(s))

\* ---- claims ----
Existing == {o \in OrderIds : orders[o].exists}

\* C1: of the concurrent Activate calls on one order whose activation is unset,
\* at most one is answered 200: within one activation period of an order no
\* two Activate calls succeed.
C1_AtMostOneActivateSucceeds ==
    \A o \in Existing : Len(epoch[o].grants) <= 1

\* C2: an order whose stored status is PAID keeps the status PAID in every
\* step, whichever handler takes it.
C2_PaidNeverReverts ==
    [][\A o \in OrderIds :
          (orders[o].exists /\ orders[o].status = "PAID")
              => (orders'[o].exists /\ orders'[o].status = "PAID")]_vars

\* C2 witness: an order is PAID while the POST /order request that created it
\* still has its save pending.
C2_Witness ==
    \E s \in Slots :
        /\ reqs[s].pc = "order_pay"
        /\ orders[reqs[s].id].status = "PAID"

\* C3: Activate on an activated order, with any deviceId, is answered 409 with
\* the stored activatedAt and deviceId, and the step changes no order and
\* leaves no save pending.
C3_ActivatedIsRefused ==
    /\ [](\A o \in Existing :
            IsActivated(orders[o].activation) =>
                /\ ActivateReply(orders[o].orderCode).code = 409
                /\ ActivateReply(orders[o].orderCode).activatedAt
                       = orders[o].activation.activatedAt
                /\ ActivateReply(orders[o].orderCode).deviceId
                       = orders[o].activation.deviceId)
    /\ [][\A o \in OrderIds :
            (orders[o].exists /\ IsActivated(orders[o].activation)) =>
                \/ (orders' = orders /\ reqs' = reqs)
                \/ \A s \in Slots, d \in DeviceInputs, f \in FwdInputs :
                       ~ActivateFind(s, orders[o].orderCode, d, f)]_vars

\* C3 witness: an activated order bound to D1, whose Activate reply is the 409.
C3_Witness ==
    \E o \in Existing :
        /\ IsActivated(orders[o].activation)
        /\ orders[o].activation.deviceId = "D1"
        /\ orders[o].activation.activatedAt < now
        /\ ActivateReply(orders[o].orderCode).code = 409

\* C4: every activated order is PAID.
C4_ActivatedIsPaid ==
    \A o \in Existing :
        IsActivated(orders[o].activation) => orders[o].status = "PAID"

\* C4 witness: an order activated again after a reset.
C4_Witness ==
    \E o \in Existing :
        /\ IsActivated(orders[o].activation)
        /\ epoch[o].via # "create"

\* C5: a deviceId D (not null) that an Activate call of the current activation
\* period was answered 200 with stays the stored deviceId, and Validate with
\* any other deviceId is not answered 200.
C5_BoundDeviceHolds ==
    \A o \in Existing :
        \A i \in 1..Len(epoch[o].grants) :
            epoch[o].grants[i] # Null =>
                /\ orders[o].activation.deviceId = epoch[o].grants[i]
                /\ \A d \in DeviceInputs \ {epoch[o].grants[i]} :
                       ValidateStatus(orders[o].orderCode, d) # 200

\* C6: Validate on a PAID, activated order bound to a device, called with
\* another non-empty deviceId, is answered 409, and the step changes no order.
C6_DeviceMismatch ==
    /\ [](\A o \in Existing, d \in DeviceInputs :
            (/\ orders[o].status = "PAID"
             /\ IsActivated(orders[o].activation)
             /\ orders[o].activation.deviceId # Null
             /\ d \notin {Null, "", orders[o].activation.deviceId})
                => ValidateStatus(orders[o].orderCode, d) = 409)
    /\ [][\A c \in OrderCodeInputs, d \in DeviceInputs :
            orders' = orders \/ ~Validate(c, d)]_vars

\* C6 witness: a PAID order bound to D1, for which Validate with D2 gives 409.
C6_Witness ==
    \E o \in Existing :
        /\ orders[o].status = "PAID"
        /\ orders[o].activation.deviceId = "D1"
        /\ ValidateStatus(orders[o].orderCode, "D2") = 409

\* C7: on a PAID order with no Activate call answered 200 since its creation
\* or its last reset, Validate with any non-empty deviceId is answered 403.
C7_NotActivated ==
    \A o \in Existing, d \in DeviceInputs \ {Null, ""} :
        (orders[o].status = "PAID" /\ epoch[o].grants = <<>>)
            => ValidateStatus(orders[o].orderCode, d) = 403

\* C7 witness: a PAID order that was activated, then reset by the API route,
\* and not activated since.
C7_Witness ==
    \E o \in Existing :
        /\ orders[o].status = "PAID"
        /\ epoch[o] = NewEpoch("api", TRUE)
        /\ ValidateStatus(orders[o].orderCode, "D1") = 403

\* C8: after a reset (either route) of an activated order, and until an
\* Activate call succeeds, Activate passes its checks; the request that passed
\* them holds the supplied deviceId, and its save stores that deviceId with
\* isActivated true and is answered 200 with it.
C8_ResetReopens ==
    /\ [](\A o \in Existing :
            (/\ epoch[o].via \in {"ui", "api"}
             /\ epoch[o].wasActivated
             /\ epoch[o].grants = <<>>)
                => ActivateRefusal(orders[o].orderCode) = 0)
    /\ [][\A o \in OrderIds :
            (/\ orders[o].exists
             /\ epoch[o].via \in {"ui", "api"}
             /\ epoch[o].wasActivated
             /\ epoch[o].grants = <<>>)
                => \A s \in Slots, d \in DeviceInputs, f \in FwdInputs :
                      ActivateFind(s, orders[o].orderCode, d, f) =>
                          /\ reqs'[s].pc = "activate_save"
                          /\ reqs'[s].id = o
                          /\ reqs'[s].activation.deviceId
                                 = (IF d \in {Null, ""} THEN Null ELSE d)]_vars
    /\ [][\A s \in Slots :
            ActivateSave(s) =>
                /\ ActivateOkReply(reqs[s]).code = 200
                /\ ActivateOkReply(reqs[s]).deviceId = reqs[s].activation.deviceId
                /\ orders'[reqs[s].id].activation.isActivated
                /\ orders'[reqs[s].id].activation.present
                /\ orders'[reqs[s].id].activation.deviceId
                       = reqs[s].activation.deviceId]_vars

\* C8 witness: an order activated with D1, reset by the API route, and then
\* activated with D2 by the first Activate call to succeed after the reset.
C8_Witness ==
    \E o \in Existing :
        /\ epoch[o] = [via |-> "api", wasActivated |-> TRUE, grants |-> <<"D2">>]
        /\ orders[o].activation.deviceId = "D2"
        /\ IsActivated(orders[o].activation)

\* C9: the paidAt of a PAID order never changes.
C9_PaidAtSetOnce ==
    [][\A o \in OrderIds :
          (orders[o].exists /\ orders[o].status = "PAID")
              => orders'[o].paidAt = orders[o].paidAt]_vars

\* C10: a return-trip request on an existing order whose status parameter is
\* not "PAID" or whose sig is not the signature over (stored orderCode, "PAID")
\* is answered with the page showing the stored status, changes no order and
\* leaves no save pending.
C10_UnverifiedReturnIsInert ==
    /\ [](\A o \in Existing, st \in StatusInputs, sig \in SigInputs :
            ~(st = "PAID" /\ sig = Sign(orders[o].orderCode, "PAID")) =>
                /\ SuccessFindReply(o, st, sig).code = 200
                /\ SuccessFindReply(o, st, sig).status = orders[o].status)
    /\ [][\A o \in OrderIds :
            orders[o].exists =>
                \/ (orders' = orders /\ reqs' = reqs)
                \/ \A s \in Slots, st \in StatusInputs, q \in OrderCodeInputs,
                      sig \in SigInputs :
                       ~(st = "PAID" /\ sig = Sign(orders[o].orderCode, "PAID"))
                           => ~SuccessFind(s, o, st, q, sig)]_vars

\* C10 witness: a PENDING order for which a return with status PAID and the
\* signature of another status, and a return with status CANCELLED and its
\* own signature, both render the page with PENDING.
C10_Witness ==
    \E o \in Existing :
        /\ orders[o].status = "PENDING"
        /\ orders[o].checkoutUrl # Null
        /\ SuccessFindReply(o, "PAID",
               Sign(orders[o].orderCode, "CANCELLED")).status = "PENDING"
        /\ SuccessFindReply(o, "CANCELLED",
               Sign(orders[o].orderCode, "CANCELLED")).status = "PENDING"

\* C11: the query parameters of the return URL issued for an order A, sent to
\* the return-trip route of another order B, do not verify: the request is
\* answered with the page showing B's stored status, changes no order and
\* leaves no save pending.
C11_ReplayOnOtherOrder ==
    /\ [](\A a \in Existing, b \in Existing :
            a # b =>
                LET u == ReturnUrl(a, orders[a].orderCode)
                IN /\ ~Verified(orders[b], u.status, u.sig)
                   /\ SuccessFindReply(b, u.status, u.sig).code = 200
                   /\ SuccessFindReply(b, u.status, u.sig).status = orders[b].status)
    /\ [][\A a \in OrderIds, b \in OrderIds, s \in Slots :
            (a # b /\ orders[a].exists /\ orders[b].exists) =>
                LET u == ReturnUrl(a, orders[a].orderCode)
                IN \/ (orders' = orders /\ reqs' = reqs)
                   \/ ~SuccessFind(s, b, u.status, u.orderCode, u.sig)]_vars

\* C11 witness: order A was paid over its return URL, order B is PENDING, and
\* the parameters of A's URL on B's route give the page with PENDING.
C11_Witness ==
    \E a \in Existing, b \in Existing :
        /\ a # b
        /\ orders[a].status = "PAID"
        /\ orders[b].status = "PENDING"
        /\ orders[b].checkoutUrl # Null
        /\ SuccessFindReply(b, "PAID", Sign(orders[a].orderCode, "PAID")).status
               = "PENDING"

\* C12: when the provider call of POST /order throws or returns no checkout
\* URL, the buyer is answered with a failure status and not with a redirect,
\* the order keeps its status and has no checkoutUrl, and the request ends
\* without another provider call.
C12_CheckoutFailureSurfaced ==
    /\ [](\A s \in Slots, r \in {Null, "throw"} :
            reqs[s].pc = "order_pay" =>
                /\ OrderPayReply(reqs[s], r).code >= 400
                /\ OrderPayReply(reqs[s], r).code # 302)
    /\ [][\A s \in Slots, r \in {Null, "throw"} :
            OrderPay(s, r) =>
                /\ orders'[reqs[s].id].exists
                /\ orders'[reqs[s].id].status = orders[reqs[s].id].status
                /\ orders'[reqs[s].id].checkoutUrl = Null
                /\ reqs'[s].pc = "idle"]_vars

\* C13: no refusal of Activate carries a driveLink; a request that passes the
\* checks reads the driveLink of the catalog item of its order, and its 200
\* carries that link, a link of the catalog, whatever the admin did to the
\* item since the order was created.
C13_OkCarriesDriveLink ==
    /\ [](\A c \in OrderCodeInputs : ActivateReply(c).driveLink = Null)
    /\ [][\A o \in OrderIds, s \in Slots, d \in DeviceInputs, f \in FwdInputs :
            orders[o].exists =>
                \/ ~ActivateFind(s, orders[o].orderCode, d, f)
                \/ reqs'[s].pc # "activate_save"
                \/ /\ codes[orders[o].code].exists
                   /\ reqs'[s].driveLink = codes[orders[o].code].driveLink]_vars
    /\ [][\A s \in Slots :
            ActivateSave(s) =>
                /\ ActivateOkReply(reqs[s]).code = 200
                /\ ActivateOkReply(reqs[s]).driveLink = reqs[s].driveLink
                /\ ActivateOkReply(reqs[s]).driveLink \in DriveLinks]_vars

\* C14: no two stored orders have the same orderCode, a stored order stays
\* stored with its orderCode, and an insert whose orderCode is already stored
\* adds no order and ends its request with a failure response.
C14_OrderCodeUnique ==
    /\ [](\A a \in Existing, b \in Existing :
            a # b => orders[a].orderCode # orders[b].orderCode)
    /\ [](\A s \in Slots :
            (reqs[s].pc = "order_create" /\ FindOne(reqs[s].orderCode) # 0)
                => OrderCreateReply(reqs[s]).code = 500)
    /\ [][\A o \in OrderIds :
            orders[o].exists =>
                /\ orders'[o].exists
                /\ orders'[o].orderCode = orders[o].orderCode]_vars
    /\ [][\A s \in Slots :
            (/\ reqs[s].pc = "order_create"
             /\ FindOne(reqs[s].orderCode) # 0
             /\ OrderCreate(s))
            => (orders' = orders /\ reqs'[s].pc = "idle")]_vars

\* C14 witness: two requests drew the same clock value; the order of one is
\* stored and the insert of the other is still to come.
C14_Witness ==
    \E s \in Slots, o \in Existing :
        /\ reqs[s].pc = "order_create"
        /\ reqs[s].orderCode = orders[o].orderCode
        /\ OrderCreateReply(reqs[s]).code = 500

\* C15: an API reset whose x-admin-secret is not the configured secret is
\* answered 401, also when its orderCode is missing, and one with the
\* configured secret and no orderCode is answered 400; neither changes an order.
C15_ResetApiRefusals ==
    /\ [](\A k \in SecretInputs, c \in OrderCodeInputs :
            /\ k # ADMIN_ACTIVATE_SECRET => ResetApiStatus(k, c) = 401
            /\ (k = ADMIN_ACTIVATE_SECRET /\ c = 0) => ResetApiStatus(k, c) = 400)
    /\ [][\A k \in SecretInputs, c \in OrderCodeInputs :
            (k # ADMIN_ACTIVATE_SECRET \/ c = 0)
                => (orders' = orders \/ ~ResetApi(k, c))]_vars

\* C15 witness: an activated order whose reset is refused with 401 for a wrong
\* and for an absent secret, while the request with no orderCode gets 401 with
\* a wrong secret and 400 with the configured one.
C15_Witness ==
    \E o \in Existing :
        /\ IsActivated(orders[o].activation)
        /\ ResetApiStatus("wrong", orders[o].orderCode) = 401
        /\ ResetApiStatus(Null, orders[o].orderCode) = 401
        /\ ResetApiStatus("wrong", 0) = 401
        /\ ResetApiStatus(ADMIN_ACTIVATE_SECRET, 0) = 400

\* C16: a Validate call, whatever its input and its outcome, leaves the set of
\* orders and every field of every order as they were.
C16_ValidateWritesNothing ==
    [][\A c \in OrderCodeInputs, d \in DeviceInputs :
          orders' = orders \/ ~Validate(c, d)]_vars

\* C16 witness: an activated order stored without a device, for which Validate
\* answers 200 to a caller naming a device, next to calls answered 400 and 404.
C16_Witness ==
    \E o \in Existing :
        /\ IsActivated(orders[o].activation)
        /\ orders[o].activation.deviceId = Null
        /\ ValidateStatus(orders[o].orderCode, "D1") = 200
        /\ ValidateStatus(orders[o].orderCode, Null) = 400
        /\ \E c \in OrderCodeInputs : ValidateStatus(c, "D1") = 404

\* C17: the stored isActivated of an order goes from true to false only in a
\* step of one of the two resets, and goes from false to true only as the
\* first change of its activation period (no Activate was answered 200 in the
\* period before), also when Activate requests overlap.
C17_ActivatedFlagSteps ==
    [][\A o \in OrderIds :
          orders[o].exists =>
              /\ (IsActivated(orders[o].activation)
                    /\ ~IsActivated(orders'[o].activation))
                 => \/ ResetUi(o)
                    \/ \E k \in SecretInputs, c \in OrderCodeInputs : ResetApi(k, c)
              /\ (~IsActivated(orders[o].activation)
                    /\ IsActivated(orders'[o].activation))
                 => /\ epoch[o].grants = <<>>
                    /\ epoch'[o].via = epoch[o].via]_vars

\* C17 witness: an order activated again after a reset, by two overlapping
\* Activate requests that were both answered 200.
C17_Witness ==
    \E o \in Existing :
        /\ epoch[o].via # "create"
        /\ epoch[o].wasActivated
        /\ Len(epoch[o].grants) = 2
        /\ IsActivated(orders[o].activation)

\* C18: the return URL built at order creation verifies on the return-trip
\* route of its order: its sig is the value the handler recomputes over the
\* stored orderCode and "PAID", so a request of the unmodified URL leaves a
\* save pending that stores status PAID and a paidAt; the signature over the
\* same orderCode and another status does not verify as PAID.
C18_SignVerifyRoundTrip ==
    /\ [](\A s \in Slots :
            reqs[s].pc = "order_pay" =>
                LET u == ReturnUrl(reqs[s].id, reqs[s].orderCode)
                IN /\ orders[u.id].exists
                   /\ u.sig = Sign(orders[u.id].orderCode, "PAID")
                   /\ Verified(orders[u.id], u.status, u.sig))
    /\ [](\A o \in Existing :
            LET u == ReturnUrl(o, orders[o].orderCode)
            IN /\ Verified(orders[o], u.status, u.sig)
               /\ SuccessFindReply(o, u.status, u.sig).code = 0
               /\ \A st \in StatusInputs \ {"PAID"} :
                     /\ ~Verified(orders[o], "PAID", Sign(orders[o].orderCode, st))
                     /\ ~Verified(orders[o], st, Sign(orders[o].orderCode, st)))
    /\ [][\A o \in OrderIds, s \in Slots :
            orders[o].exists =>
                LET u == ReturnUrl(o, orders[o].orderCode)
                IN \/ ~SuccessFind(s, o, u.status, u.orderCode, u.sig)
                   \/ /\ reqs'[s].pc = "success_save"
                      /\ reqs'[s].id = o
                      /\ reqs'[s].paidAt = now
                      /\ orders[o].status = "PENDING" => reqs'[s].setStatus]_vars
    /\ [][\A s \in Slots :
            SuccessSave(s) =>
                /\ orders'[reqs[s].id].status = "PAID"
                /\ orders'[reqs[s].id].paidAt = reqs[s].paidAt
                /\ orders'[reqs[s].id].paidAt \in Times]_vars

\* C18 witness: the return URL of a PENDING order holding its checkout link
\* was requested, and the save that stores PAID and the paidAt is pending.
C18_Witness ==
    \E s \in Slots :
        /\ reqs[s].pc = "success_save"
        /\ reqs[s].setStatus
        /\ reqs[s].paidAt = now
        /\ orders[reqs[s].id].status = "PENDING"
        /\ orders[reqs[s].id].checkoutUrl # Null

\* C19: the status on the page of the return trip is the status the store
\* holds when the page is rendered: on the page rendered at once, on the page
\* rendered after the save, and on the page rendered after a save that failed.
C19_PageShowsStoredStatus ==
    /\ [](\A o \in Existing, st \in StatusInputs, sig \in SigInputs :
            SuccessFindReply(o, st, sig).code = 200
                => SuccessFindReply(o, st, sig).status = orders[o].status)
    /\ [][\A s \in Slots :
            (SuccessSave(s) \/ SuccessSaveFails(s)) =>
                /\ SuccessSaveReply(reqs[s]).code = 200
                /\ SuccessSaveReply(reqs[s]).status = orders'[reqs[s].id].status]_vars

\* C20: Activate answers 400 to a missing orderCode, 404 to an unknown one,
\* 400 to an order that is not PAID and 409 to an activated one, in this
\* order; on a PAID order that is not activated it records isActivated true,
\* activatedAt the current time, deviceId the supplied value (null when absent
\* or empty) and ip the x-forwarded-for header when present, else the
\* connection address; its save stores this activation and the 200 carries the
\* stored deviceId and activatedAt.
C20_ActivateRecords ==
    /\ [](\A c \in OrderCodeInputs :
            LET o == FindOne(c) IN
            /\ c = 0 => ActivateReply(c).code = 400
            /\ (c # 0 /\ o = 0) => ActivateReply(c).code = 404
            /\ (o # 0 /\ orders[o].status # "PAID") => ActivateReply(c).code = 400
            /\ (o # 0 /\ orders[o].status = "PAID"
                  /\ IsActivated(orders[o].activation))
               => ActivateReply(c).code = 409
            /\ (o # 0 /\ orders[o].status = "PAID"
                  /\ ~IsActivated(orders[o].activation))
               => ActivateRefusal(c) = 0)
    /\ [][\A o \in OrderIds, s \in Slots, d \in DeviceInputs, f \in FwdInputs :
            (/\ orders[o].exists
             /\ orders[o].status = "PAID"
             /\ ~IsActivated(orders[o].activation))
            => \/ ~ActivateFind(s, orders[o].orderCode, d, f)
               \/ /\ reqs'[s].pc = "activate_save"
                  /\ reqs'[s].id = o
                  /\ reqs'[s].activation =
                       [present |-> TRUE, isActivated |-> TRUE,
                        activatedAt |-> now,
                        deviceId |-> IF d \in {Null, ""} THEN Null ELSE d,
                        ip |-> IF f # Null THEN f ELSE RemoteAddress]]_vars
    /\ [][\A s \in Slots :
            ActivateSave(s) =>
                /\ orders'[reqs[s].id].activation = reqs[s].activation
                /\ ActivateOkReply(reqs[s]).code = 200
                /\ ActivateOkReply(reqs[s]).deviceId =
                       orders'[reqs[s].id].activation.deviceId
                /\ ActivateOkReply(reqs[s]).activatedAt =
                       orders'[reqs[s].id].activation.activatedAt]_vars

\* C20 witness: an order activated at time 2 by a request that came with the
\* x-forwarded-for header and no deviceId.
C20_Witness ==
    \E o \in Existing :
        /\ orders[o].status = "PAID"
        /\ IsActivated(orders[o].activation)
        /\ orders[o].activation.activatedAt = 2
        /\ orders[o].activation.deviceId = Null
        /\ orders[o].activation.ip = "fwd"

\* the fields of an activation as the handlers read them
\* (order.activation?.isActivated, order.activation?.deviceId, ...)
ActivationAsRead(a) ==
    [isActivated |-> IsActivated(a),
     activatedAt |-> IF a.present THEN a.activatedAt ELSE 0,
     deviceId |-> IF a.present THEN a.deviceId ELSE Null,
     ip |-> IF a.present THEN a.ip ELSE Null]

\* C21: a step of either reset on an existing order, whatever its state,
\* leaves it reading as not activated with no activatedAt, deviceId and ip,
\* and leaves the order stored with its status, paidAt, amount, orderCode and
\* checkoutUrl; what the two resets write reads the same, is answered the
\* same by Activate and Validate, and is replaced whole by the next Activate.
C21_ResetIsUnconditional ==
    /\ [][\A o \in OrderIds :
            (/\ orders[o].exists
             /\ \/ ResetUi(o)
                \/ \E k \in SecretInputs, c \in OrderCodeInputs :
                      /\ ResetApiStatus(k, c) = 200
                      /\ FindOne(c) = o
                      /\ ResetApi(k, c))
            => /\ ActivationAsRead(orders'[o].activation) =
                    [isActivated |-> FALSE, activatedAt |-> 0,
                     deviceId |-> Null, ip |-> Null]
               /\ [orders'[o] EXCEPT !.activation = NullActivation]
                    = [orders[o] EXCEPT !.activation = NullActivation]
               /\ ActivateRefusal(orders[o].orderCode)' =
                    IF orders[o].status = "PAID" THEN 0 ELSE 400
               /\ \A d \in DeviceInputs \ {Null, ""} :
                     ValidateStatus(orders[o].orderCode, d)' =
                         IF orders[o].status = "PAID" THEN 403 ELSE 400]_vars
    /\ [](/\ ActivationAsRead(UiResetActivation) = ActivationAsRead(ApiResetActivation)
          /\ \A o \in Existing, s \in Slots :
                reqs[s].pc = "activate_save" =>
                    ActivateSaveDoc([orders[o] EXCEPT
                                        !.activation = UiResetActivation], reqs[s])
                  = ActivateSaveDoc([orders[o] EXCEPT
                                        !.activation = ApiResetActivation], reqs[s]))

\* C21 witness: a PAID order with its checkout link that was activated with a
\* device when the API reset cleared it, and nothing was activated since.
C21_Witness ==
    \E o \in Existing :
        /\ epoch[o].via = "api"
        /\ epoch[o].wasActivated
        /\ epoch[o].grants = <<>>
        /\ orders[o].status = "PAID"
        /\ orders[o].paidAt # 0
        /\ orders[o].checkoutUrl # Null
        /\ orders[o].activation = ApiResetActivation
        /\ ActivateRefusal(orders[o].orderCode) = 0

\* C22: while the latest Activate answered 200 for an order came without a
\* deviceId (absent or empty), the order is stored activated with deviceId
\* null, Validate answers 200 to every non-empty deviceId, and no Validate
\* call changes the order, so the deviceId stays null.
C22_NullDeviceValidates ==
    /\ [](\A o \in Existing :
            (/\ IsActivated(orders[o].activation)
             /\ epoch[o].grants # <<>>
             /\ epoch[o].grants[Len(epoch[o].grants)] = Null)
            => /\ orders[o].activation.deviceId = Null
               /\ \A d \in DeviceInputs \ {Null, ""} :
                     ValidateStatus(orders[o].orderCode, d) = 200)
    /\ [][\A o \in OrderIds, d \in DeviceInputs :
            (/\ orders[o].exists
             /\ IsActivated(orders[o].activation)
             /\ orders[o].activation.deviceId = Null)
            => (orders' = orders \/ ~Validate(orders[o].orderCode, d))]_vars

\* C22 witness: an order whose only activation since a reset came without a
\* deviceId, to which Validate answers 200 for two different devices.
C22_Witness ==
    \E o \in Existing :
        /\ epoch[o].via # "create"
        /\ epoch[o].grants = <<Null>>
        /\ IsActivated(orders[o].activation)
        /\ orders[o].activation.deviceId = Null
        /\ ValidateStatus(orders[o].orderCode, "D1") = 200
        /\ ValidateStatus(orders[o].orderCode, "D2") = 200

\* C23: every request of Activate, Validate, the API reset and the return
\* trip is answered, also when one of its store operations fails: a request
\* that is in flight is eventually answered, and none is left unanswered.
C23_EveryRequestAnswered ==
    \A s \in Slots :
        (reqs[s].pc \in {"activate_save", "success_save", "unanswered"})
            ~> (reqs[s].pc = "idle")

\* C24: a step of mark-paid or of the save of the return trip leaves the
\* stored activation of its order as it is, also when an Activate or a reset
\* came between its read and its write, and a step of the save of Activate or
\* of either reset leaves status and paidAt as they are.
C24_NoLostUpdate ==
    [][\A o \in OrderIds :
          orders[o].exists =>
              /\ \/ orders'[o].activation = orders[o].activation
                 \/ ~(\/ MarkPaid(o)
                      \/ \E s \in Slots : reqs[s].id = o /\ SuccessSave(s))
              /\ \/ /\ orders'[o].status = orders[o].status
                    /\ orders'[o].paidAt = orders[o].paidAt
                 \/ ~(\/ \E s \in Slots : reqs[s].id = o /\ ActivateSave(s)
                      \/ ResetUi(o)
                      \/ \E k \in SecretInputs, c \in OrderCodeInputs :
                            FindOne(c) = o /\ ResetApi(k, c))]_vars

\* C24 witness: the save of a return trip and the save of an Activate are both
\* pending on one order, whose paidAt was stamped after the Activate read it.
C24_Witness ==
    \E s \in Slots, t \in Slots :
        /\ reqs[s].pc = "success_save"
        /\ reqs[t].pc = "activate_save"
        /\ reqs[s].id = reqs[t].id
        /\ orders[reqs[s].id].paidAt > reqs[t].activation.activatedAt

====
